---- MODULE Spec2Model ----
(***************************************************************************)
(* A model of app.py: the TinyRAG keyword retriever, the Gemini client     *)
(* gemini_generate, the pipeline agentic_network_configurator and the      *)
(* Streamlit button handler that gates them.                               *)
(*                                                                         *)
(* A Python str is modelled as a sequence of one-character strings, so     *)
(* that lower(), split(), strip(), join() and the substring test `in` are  *)
(* computed character by character.                                        *)
(***************************************************************************)
EXTENDS Integers, Sequences, FiniteSets, TLC

\* ------------------------------------------------------------------ bounds
\* Longest generated query of the retrieval specification.
MaxQueryLen == 3
\* Largest generated knowledge collection of the retrieval specification.
MaxDocs == 3
\* retrieve is called with k in -MaxNegK .. MaxK.
MaxK == 5
MaxNegK == 2
\* Longest "parts" list of a generated response body.
MaxParts == 2

\* ----------------------------------------------------------- Python str
Min(a, b) == IF a <= b THEN a ELSE b
Max(a, b) == IF a >= b THEN a ELSE b

\* The characters str.isspace() holds of, among those the model uses.
Whitespace == {" ", "\t", "\n"}

UpperToLower ==
  [c \in {"A", "B", "C", "D", "E", "F", "G", "H", "I", "J", "K", "L", "M",
          "N", "O", "P", "Q", "R", "S", "T", "U", "V", "W", "X", "Y", "Z"} |->
     CASE c = "A" -> "a" [] c = "B" -> "b" [] c = "C" -> "c" [] c = "D" -> "d"
       [] c = "E" -> "e" [] c = "F" -> "f" [] c = "G" -> "g" [] c = "H" -> "h"
       [] c = "I" -> "i" [] c = "J" -> "j" [] c = "K" -> "k" [] c = "L" -> "l"
       [] c = "M" -> "m" [] c = "N" -> "n" [] c = "O" -> "o" [] c = "P" -> "p"
       [] c = "Q" -> "q" [] c = "R" -> "r" [] c = "S" -> "s" [] c = "T" -> "t"
       [] c = "U" -> "u" [] c = "V" -> "v" [] c = "W" -> "w" [] c = "X" -> "x"
       [] c = "Y" -> "y" [] c = "Z" -> "z"]

\* str.lower()
Lower(s) ==
  [i \in 1..Len(s) |-> IF s[i] \in DOMAIN UpperToLower THEN UpperToLower[s[i]] ELSE s[i]]

\* `w in s` for two strs: w occurs in s as a contiguous substring.
IsSubstr(w, s) ==
  \E i \in 0..(Len(s) - Len(w)) : SubSeq(s, i + 1, i + Len(w)) = w

\* str.split() without arguments: the maximal runs of non-whitespace characters.
RECURSIVE SplitFrom(_, _, _)
SplitFrom(s, i, cur) ==
  IF i > Len(s) THEN (IF cur = <<>> THEN <<>> ELSE <<cur>>)
  ELSE IF s[i] \in Whitespace
       THEN (IF cur = <<>> THEN <<>> ELSE <<cur>>) \o SplitFrom(s, i + 1, <<>>)
       ELSE SplitFrom(s, i + 1, Append(cur, s[i]))

SplitOnEverySpace(s) == <<<<>>>> \o SplitFrom(s, 1, <<>>)

Split(s) == SplitFrom(s, 1, <<>>)

\* str.strip() without arguments.
RECURSIVE LStrip(_)
LStrip(s) ==
  IF s # <<>> /\ Head(s) \in Whitespace THEN LStrip(Tail(s)) ELSE s

RECURSIVE RStrip(_)
RStrip(s) ==
  IF s # <<>> /\ s[Len(s)] \in Whitespace THEN RStrip(SubSeq(s, 1, Len(s) - 1)) ELSE s

Strip(s) == RStrip(LStrip(s))

\* " ".join(xs)
RECURSIVE Join(_)
Join(xs) ==
  IF xs = <<>> THEN <<>>
  ELSE IF Len(xs) = 1 THEN xs[1]
  ELSE xs[1] \o <<" ">> \o Join(Tail(xs))

\* xs[:k], for any integer k.
SliceTo(xs, k) ==
  SubSeq(xs, 1, IF k < 0 THEN Max(Len(xs) + k, 0) ELSE Min(k, Len(xs)))

\* ------------------------------------------------------------- TinyRAG
Doc1 ==
  <<
    "V", "P", "N", " ", "s", "e", "t", "u", "p", " ", "r", "e", "q", "u", "i", "r", "e", "s",
    " ", "d", "e", "f", "i", "n", "i", "n", "g", " ", "t", "u", "n", "n", "e", "l", " ", "i",
    "n", "t", "e", "r", "f", "a", "c", "e", "s", ",", " ", "e", "n", "c", "r", "y", "p", "t",
    "i", "o", "n", ",", " ", "a", "n", "d", " ", "p", "e", "e", "r", " ", "I", "P", "s", "."
  >>

Doc2 ==
  <<
    "A", "C", "L", "s", " ", "s", "h", "o", "u", "l", "d", " ", "b", "e", " ", "a", "p", "p",
    "l", "i", "e", "d", " ", "c", "a", "r", "e", "f", "u", "l", "l", "y", " ", "t", "o", " ",
    "a", "v", "o", "i", "d", " ", "b", "l", "o", "c", "k", "i", "n", "g", " ", "l", "e", "g",
    "i", "t", "i", "m", "a", "t", "e", " ", "t", "r", "a", "f", "f", "i", "c", "."
  >>

Doc3 ==
  <<
    "R", "o", "u", "t", "i", "n", "g", " ", "u", "p", "d", "a", "t", "e", "s", " ", "n", "e",
    "e", "d", " ", "p", "r", "o", "p", "e", "r", " ", "r", "e", "d", "i", "s", "t", "r", "i",
    "b", "u", "t", "i", "o", "n", " ", "t", "o", " ", "p", "r", "e", "v", "e", "n", "t", " ",
    "l", "o", "o", "p", "s", "."
  >>

Doc4 ==
  <<
    "D", "e", "v", "i", "c", "e", " ", "c", "o", "m", "m", "a", "n", "d", "s", " ", "m", "u",
    "s", "t", " ", "m", "a", "t", "c", "h", " ", "O", "S", " ", "s", "y", "n", "t", "a", "x",
    " ", "(", "C", "i", "s", "c", "o", " ", "I", "O", "S", ",", " ", "J", "u", "n", "i", "p",
    "e", "r", " ", "J", "u", "n", "o", "s", ",", " ", "e", "t", "c", ".", ")", "."
  >>

\* TinyRAG.__init__: self.docs
DefaultDocs == <<Doc1, Doc2, Doc3, Doc4>>

\* retrieve's default k.
DefaultK == 3

\* sum(1 for w in query_words if w in doc.lower())
RECURSIVE CountMatches(_, _)
CountMatches(words, lowdoc) ==
  IF words = <<>> THEN 0
  ELSE (IF IsSubstr(Head(words), lowdoc) THEN 1 ELSE 0) + CountMatches(Tail(words), lowdoc)

Score(query_words, doc) == CountMatches(query_words, Lower(doc))

\* The loop of retrieve: (score, doc) of each doc with score > 0, in self.docs order.
RECURSIVE ScoredFrom(_, _, _)
ScoredFrom(docs, query_words, i) ==
  IF i > Len(docs) THEN <<>>
  ELSE LET score == Score(query_words, docs[i]) IN
       (IF score > 0 THEN <<[score |-> score, doc |-> docs[i]]>> ELSE <<>>)
         \o ScoredFrom(docs, query_words, i + 1)

\* key=lambda x: -x[0]
SortKey(x) == -x.score

\* list.sort(key=...) is stable: an element goes after every element whose key is
\* not larger than its own.
RECURSIVE InsertStable(_, _)
InsertStable(sorted, x) ==
  IF sorted = <<>> THEN <<x>>
  ELSE IF SortKey(Head(sorted)) <= SortKey(x)
       THEN <<Head(sorted)>> \o InsertStable(Tail(sorted), x)
       ELSE <<x>> \o sorted

RECURSIVE SortStable(_)
SortStable(xs) ==
  IF xs = <<>> THEN <<>>
  ELSE InsertStable(SortStable(SubSeq(xs, 1, Len(xs) - 1)), xs[Len(xs)])

RECURSIVE InsertBeforeEqual(_, _)
InsertBeforeEqual(sorted, x) ==
  IF sorted = <<>> THEN <<x>>
  ELSE IF SortKey(Head(sorted)) < SortKey(x)
       THEN <<Head(sorted)>> \o InsertBeforeEqual(Tail(sorted), x)
       ELSE <<x>> \o sorted

RECURSIVE SortUnstable(_)
SortUnstable(xs) ==
  IF xs = <<>> THEN <<>>
  ELSE InsertBeforeEqual(SortUnstable(SubSeq(xs, 1, Len(xs) - 1)), xs[Len(xs)])

\* scored.sort(key=lambda x: -x[0])
SortScored(scored) == SortStable(scored)

SliceAtLeastOne(scored, k) == SliceTo(scored, Max(k, 1))

\* scored[:k]
TopK(scored, k) == SliceTo(scored, k)

\* TinyRAG.retrieve(query, k)
retrieve(docs, query, k) ==
  LET query_words == Split(Lower(query))
      scored == SortScored(ScoredFrom(docs, query_words, 1))
      top == TopK(scored, k)
  IN  [i \in 1..Len(top) |-> top[i].doc]

\* ------------------------------------------------------- gemini_generate
\* The two code points of the warning glyph, each one character of a str.
WarnGlyph == <<"U+26A0", "U+FE0F">>

NetworkErrorText ==
  <<
    " ", "N", "e", "t", "w", "o", "r", "k", "/", "R", "e", "q", "u", "e", "s", "t", " ", "e",
    "r", "r", "o", "r", ":", " "
  >>

NoUsableTextTail ==
  <<
    " ", "G", "e", "m", "i", "n", "i", " ", "A", "P", "I", " ", "r", "e", "t", "u", "r", "n",
    "e", "d", " ", "n", "o", " ", "u", "s", "a", "b", "l", "e", " ", "t", "e", "x", "t", "."
  >>

\* "<glyph> Gemini API returned no usable text."
NoUsableText == WarnGlyph \o NoUsableTextTail

\* The keys the client looks up.
CANDIDATES == <<"c", "a", "n", "d", "i", "d", "a", "t", "e", "s">>
CONTENT == <<"c", "o", "n", "t", "e", "n", "t">>
PARTS == <<"p", "a", "r", "t", "s">>
TEXT == <<"t", "e", "x", "t">>

\* A parsed JSON value, as the Python object resp.json() gives.
Null == [t |-> "null"]
Bool(b) == [t |-> "bool", b |-> b]
Num(n) == [t |-> "num", n |-> n]
Str(s) == [t |-> "str", s |-> s]
List(l) == [t |-> "list", l |-> l]
Dict(d) == [t |-> "dict", d |-> d]

\* The truth value Python gives an object in `if x` and `a and b`.
Truthy(v) ==
  CASE v.t = "null" -> FALSE
    [] v.t = "bool" -> v.b
    [] v.t = "num" -> v.n # 0
    [] v.t = "str" -> v.s # <<>>
    [] v.t = "list" -> v.l # <<>>
    [] v.t = "dict" -> DOMAIN v.d # {}

\* How a call ends: it returns a str or it raises.
Returned(s) == [kind |-> "return", exc |-> "", text |-> s]
Raised(e) == [kind |-> "raise", exc |-> e, text |-> <<>>]

\* `key in v` is defined for a dict, a list and a str; it raises TypeError otherwise.
HasContains(v) == v.t \in {"dict", "list", "str"}

PyIn(key, v) ==
  CASE v.t = "dict" -> key \in DOMAIN v.d
    [] v.t = "list" -> \E i \in 1..Len(v.l) : v.l[i] = Str(key)
    [] v.t = "str" -> IsSubstr(key, v.s)

\* A set of strs as a sequence, for iterating a dict (its keys).
RECURSIVE KeysSeq(_)
KeysSeq(S) ==
  IF S = {} THEN <<>>
  ELSE LET x == CHOOSE x \in S : TRUE IN <<Str(x)>> \o KeysSeq(S \ {x})

\* `for p in parts`: the elements of a list, the characters of a str, the keys of a
\* dict.
HasIter(v) == v.t \in {"dict", "list", "str"}

IterItems(v) ==
  CASE v.t = "list" -> v.l
    [] v.t = "str" -> [i \in 1..Len(v.s) |-> Str(<<v.s[i]>>)]
    [] v.t = "dict" -> KeysSeq(DOMAIN v.d)

\* The loop over parts (lines 51-53), from the i-th item on.
RECURSIVE ScanParts(_, _)
ScanParts(items, i) ==
  IF i > Len(items) THEN Returned(NoUsableText)
  ELSE LET p == items[i] IN
       IF ~HasContains(p) THEN Raised("TypeError")
       ELSE IF ~PyIn(TEXT, p) THEN ScanParts(items, i + 1)
       ELSE IF p.t # "dict" THEN Raised("TypeError")
       ELSE LET text == p.d[TEXT] IN
            IF ~Truthy(text) THEN ScanParts(items, i + 1)
            ELSE IF text.t # "str" THEN Raised("AttributeError")
            ELSE Returned(Strip(text.s))

\* cand.get("content", {}).get("parts", []) and the loop, for the candidate cand.
ScanCandidate(cand) ==
  IF cand.t # "dict" THEN Raised("AttributeError")
  ELSE LET content == IF CONTENT \in DOMAIN cand.d THEN cand.d[CONTENT] ELSE Dict(<<>>) IN
       IF content.t # "dict" THEN Raised("AttributeError")
       ELSE LET parts == IF PARTS \in DOMAIN content.d THEN content.d[PARTS] ELSE List(<<>>) IN
            IF ~HasIter(parts) THEN Raised("TypeError")
            ELSE ScanParts(IterItems(parts), 1)

\* Lines 48-54: the inspection of the parsed body.
InspectData(data) ==
  IF ~HasContains(data) THEN Raised("TypeError")
  ELSE IF ~PyIn(CANDIDATES, data) THEN Returned(NoUsableText)
  ELSE IF data.t # "dict" THEN Raised("TypeError")
  ELSE LET candidates == data.d[CANDIDATES] IN
       IF ~Truthy(candidates) THEN Returned(NoUsableText)
       ELSE CASE candidates.t = "list" -> ScanCandidate(candidates.l[1])
              [] candidates.t = "str" -> ScanCandidate(Str(<<candidates.s[1]>>))
              [] candidates.t = "dict" -> Raised("KeyError")
              [] OTHER -> Raised("TypeError")

\* What requests.post and resp.json() give: the POST raised ("error"), the body was
\* no JSON and resp.json() raised ("notjson"), or the body parsed to data ("json").
PostError(msg) == [kind |-> "error", status |-> 0, msg |-> msg, data |-> Null]
BodyNotJson(status, msg) == [kind |-> "notjson", status |-> status, msg |-> msg, data |-> Null]
BodyJson(status, data) == [kind |-> "json", status |-> status, msg |-> <<>>, data |-> data]

RequestErrorNoMessage(msg) == Returned(WarnGlyph \o NetworkErrorText)

\* except Exception as e: return f"<glyph> Network/Request error: {e}"
RequestErrorResult(msg) == Returned(WarnGlyph \o NetworkErrorText \o msg)

\* gemini_generate, given what the POST produced.
gemini_generate(response) ==
  IF response.kind # "json" THEN RequestErrorResult(response.msg)
  ELSE InspectData(response.data)

\* ------------------------------------------ agentic_network_configurator
PromptHead ==
  <<
    "\n", "Y", "o", "u", " ", "a", "r", "e", " ", "a", "n", " ", "e", "x", "p", "e", "r", "t",
    " ", "n", "e", "t", "w", "o", "r", "k", " ", "e", "n", "g", "i", "n", "e", "e", "r", " ",
    "A", "I", " ", "a", "s", "s", "i", "s", "t", "a", "n", "t", ".", " ", "T", "r", "a", "n",
    "s", "l", "a", "t", "e", " ", "t", "h", "e", " ", "h", "i", "g", "h", "-", "l", "e", "v",
    "e", "l", " ", "i", "n", "t", "e", "n", "t", " ", "i", "n", "t", "o", " ", "s", "p", "e",
    "c", "i", "f", "i", "c", ",", " ", "e", "r", "r", "o", "r", "-", "f", "r", "e", "e", " ",
    "d", "e", "v", "i", "c", "e", " ", "c", "o", "n", "f", "i", "g", "u", "r", "a", "t", "i",
    "o", "n", "s", ".", "\n", "\n", "I", "n", "t", "e", "n", "t", ":", "\n"
  >>

PromptMid ==
  <<
    "\n", "\n", "K", "n", "o", "w", "l", "e", "d", "g", "e", " ", "B", "a", "s", "e", ":", "\n"
  >>

PromptTail ==
  <<
    "\n", "\n", "T", "a", "s", "k", "s", ":", "\n", "1", ".", " ", "G", "e", "n", "e", "r",
    "a", "t", "e", " ", "d", "e", "v", "i", "c", "e", " ", "c", "o", "m", "m", "a", "n", "d",
    "s", " ", "a", "n", "d", " ", "c", "o", "n", "f", "i", "g", "u", "r", "a", "t", "i", "o",
    "n", "s", ".", "\n", "2", ".", " ", "V", "a", "l", "i", "d", "a", "t", "e", " ", "c", "o",
    "m", "m", "a", "n", "d", "s", " ", "s", "y", "n", "t", "a", "c", "t", "i", "c", "a", "l",
    "l", "y", ".", "\n", "3", ".", " ", "S", "u", "g", "g", "e", "s", "t", " ", "o", "p", "t",
    "i", "m", "i", "z", "a", "t", "i", "o", "n", " ", "i", "f", " ", "n", "e", "e", "d", "e",
    "d", ".", "\n", "4", ".", " ", "P", "r", "o", "v", "i", "d", "e", " ", "c", "o", "n", "c",
    "i", "s", "e", " ", "e", "x", "p", "l", "a", "n", "a", "t", "i", "o", "n", " ", "f", "o",
    "r", " ", "e", "a", "c", "h", " ", "c", "o", "n", "f", "i", "g", "u", "r", "a", "t", "i",
    "o", "n", ".", "\n", "\n", "R", "e", "t", "u", "r", "n", " ", "a", " ", "s", "t", "r", "u",
    "c", "t", "u", "r", "e", "d", " ", "r", "e", "p", "o", "r", "t", ".", "\n"
  >>

\* max_tokens=350, as the pipeline passes it.
ConfiguratorMaxTokens == 350
\* timeout=30 of requests.post.
PostTimeout == 30

ContextTopOne(docs, intent) == Join(retrieve(docs, intent, 1))

\* context = " ".join(rag.retrieve(intent))
ContextOf(docs, intent) == Join(retrieve(docs, intent, DefaultK))

\* The f-string of lines 59-75.
BuildPrompt(intent, context) ==
  PromptHead \o intent \o PromptMid \o context \o PromptTail

\* The arguments agentic_network_configurator passes to gemini_generate, and the
\* request the client makes of them (params, payload, timeout).
ConfiguratorRequest(api_key, intent, context) ==
  [key |-> api_key, prompt |-> BuildPrompt(intent, context),
   max_tokens |-> ConfiguratorMaxTokens, timeout |-> PostTimeout]

\* return gemini_generate(api_key, prompt, max_tokens=350)
ConfiguratorResult(outcome) == outcome

\* retrieve only reads self.docs: the collection after a call.
DocsSortedInPlace(docs, query, k) ==
  LET scored == SortScored(ScoredFrom(docs, Split(Lower(query)), 1))
  IN  [i \in 1..Len(scored) |-> scored[i].doc]

DocsAfterRetrieve(docs, query, k) == docs

\* --------------------------------------------------------- button handler
GateIntentFirst(api_key, intent_input) ==
  IF Strip(intent_input) = <<>> THEN "warning"
  ELSE IF api_key = <<>> THEN "error"
  ELSE "run"

\* Lines 89-93: which branch of the handler runs.
Gate(api_key, intent_input) ==
  IF api_key = <<>> THEN "error"
  ELSE IF Strip(intent_input) = <<>> THEN "warning"
  ELSE "run"

\* The intent the handler passes to the pipeline: intent_input.strip().
CoreIntent(intent_input) == Strip(intent_input)

\* ------------------------------------------------------------------ inputs
IntentEmpty == <<>>
IntentBlank == <<" ", "\n">>
IntentPaddedVpn == <<" ", " ", "v", "p", "n", " ", "\t">>
IntentVpnTunnel == <<"v", "p", "n", " ", "t", "u", "n", "n", "e", "l">>
IntentBranchVpn ==
  <<"S", "e", "t", " ", "u", "p", " ", "b", "r", "a", "n", "c", "h", " ",
    "o", "f", "f", "i", "c", "e", " ", "V", "P", "N">>
IntentAclRouting ==
  <<"a", "c", "l", "s", " ", "R", "o", "u", "t", "i", "n", "g", " ", "O", "S">>
IntentNoMatch == <<"z", "z", "z">>
IntentRepeated == <<"l", "o", "o", "p", "s", " ", "v", "p", "n", " ", "V", "P", "N">>
IntentToE == <<"t", "o", " ", "e">>

\* What the text area may hold when the button is pressed.
IntentInputs ==
  {IntentEmpty, IntentBlank, IntentPaddedVpn, IntentVpnTunnel, IntentBranchVpn,
   IntentAclRouting, IntentNoMatch, IntentRepeated, IntentToE}

\* What get_api_key() may give: no key, or a key.
ApiKey == <<"k", "1">>
ApiKeys == {<<>>, ApiKey}

MsgTimeout == <<"t", "i", "m", "e", "d", " ", "o", "u", "t">>
MsgRefused == <<"r", "e", "f", "u", "s", "e", "d">>
MsgBadJson == <<"E", "x", "p", "e", "c", "t", "i", "n", "g", " ", "v", "a", "l", "u", "e">>
Hi == <<"h", "i">>
PaddedHi == <<" ", "h", "i", "\n">>

\* All sequences over S of length at most n.
RECURSIVE SeqsUpTo(_, _)
SeqsUpTo(S, n) ==
  IF n = 0 THEN {<<>>}
  ELSE LET shorter == SeqsUpTo(S, n - 1) IN
       shorter \cup {Append(s, x) : s \in {t \in shorter : Len(t) = n - 1}, x \in S}

\* Response bodies that parse: the success shape and the ways to miss it.
TextValues == {Str(Hi), Str(PaddedHi), Str(<<" ">>), Str(<<>>), Num(5)}
PartValues ==
  {Dict(TEXT :> v) : v \in TextValues} \cup {Dict(<<>>), Null, Str(TEXT)}
PartsValues ==
  {List(l) : l \in SeqsUpTo(PartValues, MaxParts)}
    \cup {Null, Num(5), Str(<<"a", "b">>), Dict(TEXT :> Str(Hi)), Dict(PARTS :> Null)}
ContentValues ==
  {Dict(PARTS :> p) : p \in PartsValues}
    \cup {Dict(<<>>), Null, Str(PARTS), List(<<>>)}
CandidateValues ==
  {Dict(CONTENT :> c) : c \in ContentValues}
    \cup {Dict(<<>>), Null, Num(5), Str(CONTENT), List(<<>>)}
GoodCandidate == Dict(CONTENT :> Dict(PARTS :> List(<<Dict(TEXT :> Str(<<"o", "k">>))>>)))
CandidatesValues ==
  {List(<<c>>) : c \in CandidateValues}
    \cup {List(<<c, GoodCandidate>>) : c \in {Dict(<<>>), Null, Dict(CONTENT :> Null),
                  Dict(CONTENT :> Dict(PARTS :> List(<<Dict(TEXT :> Str(PaddedHi))>>)))}}
    \cup {List(<<>>), Null, Num(0), Num(5), Bool(TRUE), Bool(FALSE), Str(<<>>),
          Str(<<"a", "b">>), Dict(<<>>), Dict(TEXT :> Null)}
DataValues ==
  {Dict(CANDIDATES :> c) : c \in CandidatesValues}
    \cup {Dict(<<>>), Dict(TEXT :> Str(Hi)), Null, Num(5), Bool(TRUE), List(<<>>),
          List(<<Str(CANDIDATES)>>), Str(CANDIDATES), Str(<<>>)}

HttpStatuses == {200, 500}

\* Everything one POST may produce.
Responses ==
  {PostError(m) : m \in {MsgTimeout, MsgRefused}}
    \cup {BodyNotJson(s, MsgBadJson) : s \in HttpStatuses}
    \cup {BodyJson(s, d) : s \in HttpStatuses, d \in DataValues}

\* ------------------------------------------------------------------- state
VARIABLES
  pc,            \* where the program is: "idle", "posting"; "input", "returned"
  api_key,       \* get_api_key() at the button press
  intent_input,  \* the text area at the button press
  shown,         \* what the page shows: [kind, text]
  rag,           \* the TinyRAG instance: [live, docs]
  constructed,   \* the docs TinyRAG.__init__ set
  query, k, result,   \* the last call of retrieve: its arguments and what it returned
  intent,        \* agentic_network_configurator's intent
  context,       \* its context
  request,       \* the request of the POST
  events,        \* what the core has done for the current button press, in order
  response,      \* what the POST produced
  outcome,       \* how gemini_generate ended
  report,        \* how agentic_network_configurator ended
  first          \* a remembered earlier call of retrieve: [set, query, k, result]

vars ==
  <<pc, api_key, intent_input, shown, rag, constructed, query, k, result, intent,
    context, request, events, response, outcome, report, first>>

NoRag == [live |-> FALSE, docs |-> <<>>]
NoOutcome == [kind |-> "none", exc |-> "", text |-> <<>>]
NoResponse == [kind |-> "none", status |-> 0, msg |-> <<>>, data |-> Null]
NoRequest == [key |-> <<>>, prompt |-> <<>>, max_tokens |-> 0, timeout |-> 0]
NoFirst == [set |-> FALSE, query |-> <<>>, k |-> 0, result |-> <<>>, between |-> FALSE]
Shown(kind, text) == [kind |-> kind, text |-> text]

\* -------------------------------------------------- the page (Spec)
\* The script has run once and the page waits for the button.
Init ==
  /\ pc = "idle"
  /\ api_key = <<>>
  /\ intent_input = <<>>
  /\ shown = Shown("none", <<>>)
  /\ rag = NoRag
  /\ constructed = <<>>
  /\ query = <<>>
  /\ k = 0
  /\ result = <<>>
  /\ intent = <<>>
  /\ context = <<>>
  /\ request = NoRequest
  /\ events = <<>>
  /\ response = NoResponse
  /\ outcome = NoOutcome
  /\ report = NoOutcome
  /\ first = NoFirst

\* The button is pressed: Streamlit runs the script again, so nothing of the last run
\* is left. Lines 87-96, up to the POST inside gemini_generate.
ButtonPress(key, text) ==
  /\ pc = "idle"
  /\ api_key' = key
  /\ intent_input' = text
  /\ response' = NoResponse
  /\ outcome' = NoOutcome
  /\ report' = NoOutcome
  /\ first' = NoFirst
  /\ LET gate == Gate(key, text) IN
     IF gate = "run"
     THEN LET docs == DefaultDocs
              arg == CoreIntent(text)
              got == retrieve(docs, arg, DefaultK)
              ctx == ContextOf(docs, arg)
          IN  /\ rag' = [live |-> TRUE, docs |-> DocsAfterRetrieve(docs, arg, DefaultK)]
              /\ constructed' = docs
              /\ intent' = arg
              /\ query' = arg
              /\ k' = DefaultK
              /\ result' = got
              /\ context' = ctx
              /\ request' = ConfiguratorRequest(key, arg, ctx)
              /\ events' = <<"retrieve">>
              /\ shown' = Shown("spinner", <<>>)
              /\ pc' = "posting"
     ELSE /\ shown' = Shown(gate, <<>>)
          /\ rag' = NoRag
          /\ constructed' = <<>>
          /\ intent' = <<>>
          /\ query' = <<>>
          /\ k' = 0
          /\ result' = <<>>
          /\ context' = <<>>
          /\ request' = NoRequest
          /\ events' = <<>>
          /\ pc' = "idle"

\* The POST ends (lines 43-46), gemini_generate inspects what it got (48-54), the
\* pipeline returns it (76) and the handler shows it (97-98); an exception that
\* nothing catches ends the script run and Streamlit shows it.
PostEnds(resp) ==
  /\ pc = "posting"
  /\ response' = resp
  /\ events' = Append(events, "post")
  /\ LET out == gemini_generate(resp) IN
     /\ outcome' = out
     /\ report' = ConfiguratorResult(out)
     /\ shown' = IF ConfiguratorResult(out).kind = "return"
                 THEN Shown("report", ConfiguratorResult(out).text)
                 ELSE Shown("exception", <<>>)
  /\ pc' = "idle"
  /\ UNCHANGED <<api_key, intent_input, rag, constructed, query, k, result, intent,
                 context, request, first>>

Next ==
  \/ \E key \in ApiKeys, text \in IntentInputs : ButtonPress(key, text)
  \/ \E resp \in Responses : PostEnds(resp)

Spec == Init /\ [][Next]_vars

\* ------------------------------------- retrieve as a function (SpecRetrieve)
\* Generated snippets and queries: mixed case, whitespace, substrings, repeats.
DocPool == {<<"A", "b">>, <<"b">>, <<"b", "A">>}
QueryAlphabet == {"a", "B", " "}
Collections == SeqsUpTo(DocPool, MaxDocs) \cup {DefaultDocs}
Queries ==
  SeqsUpTo(QueryAlphabet, MaxQueryLen) \cup {IntentVpnTunnel, IntentToE, <<"\t">>}
Ks == (-MaxNegK)..MaxK

\* A TinyRAG over some collection, and the arguments of one call of retrieve.
InitRetrieve ==
  /\ pc = "input"
  /\ \E docs \in Collections :
       /\ rag = [live |-> TRUE, docs |-> docs]
       /\ constructed = docs
  /\ query \in Queries
  /\ k \in Ks
  /\ result = <<>>
  /\ api_key = <<>>
  /\ intent_input = <<>>
  /\ shown = Shown("none", <<>>)
  /\ intent = <<>>
  /\ context = <<>>
  /\ request = NoRequest
  /\ events = <<>>
  /\ response = NoResponse
  /\ outcome = NoOutcome
  /\ report = NoOutcome
  /\ first = NoFirst

\* rag.retrieve(query, k)
CallRetrieve ==
  /\ pc = "input"
  /\ result' = retrieve(rag.docs, query, k)
  /\ rag' = [rag EXCEPT !.docs = DocsAfterRetrieve(rag.docs, query, k)]
  /\ pc' = "returned"
  /\ UNCHANGED <<api_key, intent_input, shown, constructed, query, k, intent, context,
                 request, events, response, outcome, report, first>>

NextRetrieve == CallRetrieve

SpecRetrieve == InitRetrieve /\ [][NextRetrieve]_vars

\* ------------------------------------------------- the ranking, as specified
\* A str with no character but whitespace (the empty str too).
IsBlankStr(s) == \A i \in 1..Len(s) : s[i] \in Whitespace

\* The whitespace-delimited tokens of q, each as the span <<a, b>> it occupies.
TokenSpans(q) ==
  {sp \in (1..Len(q)) \X (1..Len(q)) :
     /\ sp[1] <= sp[2]
     /\ \A i \in sp[1]..sp[2] : q[i] \notin Whitespace
     /\ (sp[1] = 1 \/ q[sp[1] - 1] \in Whitespace)
     /\ (sp[2] = Len(q) \/ q[sp[2] + 1] \in Whitespace)}

\* The number of token occurrences of q that are substrings of doc, case ignored.
OverlapScore(q, doc) ==
  Cardinality({sp \in TokenSpans(q) :
                 IsSubstr(Lower(SubSeq(q, sp[1], sp[2])), Lower(doc))})

PositiveIdx(docs, q) == {i \in 1..Len(docs) : OverlapScore(q, docs[i]) > 0}

\* The place of docs[i] in the ranking: after every snippet of larger score and
\* every earlier snippet of equal score.
RankOf(docs, q, i) ==
  1 + Cardinality({j \in PositiveIdx(docs, q) :
                     \/ OverlapScore(q, docs[j]) > OverlapScore(q, docs[i])
                     \/ /\ OverlapScore(q, docs[j]) = OverlapScore(q, docs[i])
                        /\ j < i})

Ranking(docs, q) ==
  [r \in 1..Cardinality(PositiveIdx(docs, q)) |->
     docs[CHOOSE i \in PositiveIdx(docs, q) : RankOf(docs, q, i) = r]]

IsPrefix(a, b) == Len(a) <= Len(b) /\ \A i \in 1..Len(a) : a[i] = b[i]

\* C1: retrieve returns the leading snippets of the ranking by non-increasing overlap
\* score with ties in collection order (all of the first k for the default k); every
\* returned snippet is in the collection and has a positive score; "vpn tunnel" on
\* the default snippets puts the VPN snippet first.
C1_RetrieveReturnsLeadingRanking ==
  pc = "returned" =>
    LET ranking == Ranking(constructed, query) IN
    /\ IsPrefix(result, ranking)
    /\ (k = DefaultK => Len(result) = Min(DefaultK, Len(ranking)))
    /\ \A i \in 1..Len(result) :
         /\ \E j \in 1..Len(constructed) : constructed[j] = result[i]
         /\ OverlapScore(query, result[i]) > 0
    /\ (constructed = DefaultDocs /\ query = IntentVpnTunnel /\ k >= 1
          => Len(result) >= 1 /\ result[1] = Doc1)

\* A later snippet outranks an earlier one and two snippets tie, in collection order.
C1_Witness ==
  /\ pc = "returned"
  /\ Len(constructed) = 3
  /\ Len(result) = 3
  /\ result[1] = constructed[2]
  /\ result[2] = constructed[3]
  /\ result[3] = constructed[1]
  /\ OverlapScore(query, result[1]) = OverlapScore(query, result[2])
  /\ OverlapScore(query, result[2]) > OverlapScore(query, result[3])
  /\ result[1] # result[2]

\* C2, as claimed: for every k, negative ones too, the result has at most k snippets,
\* and fewer than k only when fewer than k snippets have a positive score.
C2_LengthAtMostK_AnyK ==
  pc = "returned" =>
    /\ Len(result) <= k
    /\ (Len(result) < k => Cardinality(PositiveIdx(constructed, query)) < k)

\* C2, amended: for k >= 0 the result has at most k snippets, and fewer than k only
\* when fewer than k snippets have a positive score; for k < 0 it is the ranking
\* without its last -k snippets, so max(0, n + k) snippets, which is more than k.
C2_LengthAtMostK ==
  pc = "returned" =>
    LET n == Cardinality(PositiveIdx(constructed, query)) IN
    /\ (k >= 0 => /\ Len(result) <= k
                  /\ (Len(result) < k => n < k))
    /\ (k < 0 => Len(result) = Max(0, n + k) /\ Len(result) > k)

\* More snippets score than k asks for: the result is cut to k.
C2_Witness ==
  /\ pc = "returned"
  /\ k >= 1
  /\ Cardinality(PositiveIdx(constructed, query)) > k
  /\ Len(result) = k

\* C8: a query without tokens, or an empty collection, gives the empty result for
\* every k, every snippet scoring 0, and the context of it is the empty str.
C8_NoTokensOrNoDocsGiveEmpty ==
  pc = "returned" /\ (IsBlankStr(query) \/ constructed = <<>>) =>
    /\ result = <<>>
    /\ Join(result) = <<>>
    /\ \A j \in 1..Len(constructed) : Score(Split(Lower(query)), constructed[j]) = 0

\* A whitespace-only query against a collection of snippets, with k > 0.
C8_Witness ==
  /\ pc = "returned"
  /\ query # <<>>
  /\ IsBlankStr(query)
  /\ Len(constructed) >= 2
  /\ k >= 1
  /\ result = <<>>

\* --------------------------- one TinyRAG instance, called repeatedly (SpecRAG)
SmallDocs == <<<<"A", "b">>, <<"b">>, <<"b", "A">>>>
RagCollections == {DefaultDocs, SmallDocs, <<>>}
RagQueries == {IntentVpnTunnel, IntentToE, IntentBlank, <<"a", " ", "B">>}
RagIntents == {IntentBranchVpn, IntentAclRouting, <<"a">>}
RagResponses ==
  {PostError(MsgTimeout), BodyJson(200, Dict(CANDIDATES :> List(<<GoodCandidate>>))),
   BodyJson(200, Dict(CANDIDATES :> List(<<>>)))}

\* TinyRAG() over some collection; nothing has been called.
InitRAG ==
  /\ pc = "ready"
  /\ \E docs \in RagCollections :
       /\ rag = [live |-> TRUE, docs |-> docs]
       /\ constructed = docs
  /\ query = <<>>
  /\ k = 0
  /\ result = <<>>
  /\ api_key = ApiKey
  /\ intent_input = <<>>
  /\ shown = Shown("none", <<>>)
  /\ intent = <<>>
  /\ context = <<>>
  /\ request = NoRequest
  /\ events = <<>>
  /\ response = NoResponse
  /\ outcome = NoOutcome
  /\ report = NoOutcome
  /\ first = NoFirst

\* History for comparing two calls: the first remembered call stays, and `between`
\* tells whether a call with other arguments came after it.
Remember(q, kk, res) ==
  first' \in
    IF first.set
    THEN {[first EXCEPT !.between = first.between \/ q # first.query \/ kk # first.k]}
    ELSE {first, [set |-> TRUE, query |-> q, k |-> kk, result |-> res, between |-> FALSE]}

\* rag.retrieve(q, kk)
RetrieveCall(q, kk) ==
  /\ pc \in {"ready", "returned", "configured"}
  /\ query' = q
  /\ k' = kk
  /\ result' = retrieve(rag.docs, q, kk)
  /\ rag' = [rag EXCEPT !.docs = DocsAfterRetrieve(rag.docs, q, kk)]
  /\ Remember(q, kk, retrieve(rag.docs, q, kk))
  /\ pc' = "returned"
  /\ intent' = <<>>
  /\ context' = <<>>
  /\ request' = NoRequest
  /\ events' = <<>>
  /\ response' = NoResponse
  /\ outcome' = NoOutcome
  /\ report' = NoOutcome
  /\ UNCHANGED <<api_key, intent_input, shown, constructed>>

\* agentic_network_configurator(api_key, text, rag), the POST producing resp.
ConfiguratorCall(text, resp) ==
  /\ pc \in {"ready", "returned", "configured"}
  /\ intent' = text
  /\ query' = text
  /\ k' = DefaultK
  /\ result' = retrieve(rag.docs, text, DefaultK)
  /\ rag' = [rag EXCEPT !.docs = DocsAfterRetrieve(rag.docs, text, DefaultK)]
  /\ Remember(text, DefaultK, retrieve(rag.docs, text, DefaultK))
  /\ context' = ContextOf(rag.docs, text)
  /\ request' = ConfiguratorRequest(api_key, text, ContextOf(rag.docs, text))
  /\ events' = <<"retrieve", "post">>
  /\ response' = resp
  /\ outcome' = gemini_generate(resp)
  /\ report' = ConfiguratorResult(gemini_generate(resp))
  /\ pc' = "configured"
  /\ UNCHANGED <<api_key, intent_input, shown, constructed>>

NextRAG ==
  \/ \E q \in RagQueries, kk \in Ks : RetrieveCall(q, kk)
  \/ \E text \in RagIntents \cup RagQueries, resp \in RagResponses : ConfiguratorCall(text, resp)

SpecRAG == InitRAG /\ [][NextRAG]_vars

\* C9: after any calls of retrieve and of the pipeline the collection is the one set
\* at construction, and a call of retrieve with the query and k of an earlier call
\* returns what that call returned.
C9_RetrieveHasNoSideEffects ==
  /\ rag.live => rag.docs = constructed
  /\ (first.set /\ pc \in {"returned", "configured"} /\ query = first.query /\ k = first.k
        => result = first.result)

\* The same query and k again, after a call with other arguments, ranking two
\* snippets out of collection order.
C9_Witness ==
  /\ pc = "returned"
  /\ first.set
  /\ first.between
  /\ query = first.query
  /\ k = first.k
  /\ Len(result) >= 2
  /\ result = first.result
  /\ result[1] # constructed[1]

\* ------------------------------------------- the response shapes, as specified
\* A part bearing non-empty text: an object whose "text" is a non-empty str.
IsTextPart(p) ==
  /\ p.t = "dict"
  /\ TEXT \in DOMAIN p.d
  /\ p.d[TEXT].t = "str"
  /\ p.d[TEXT].s # <<>>

\* The parts of the first candidate, when the body has them as a list.
HasPartsList(data) ==
  /\ data.t = "dict"
  /\ CANDIDATES \in DOMAIN data.d
  /\ data.d[CANDIDATES].t = "list"
  /\ data.d[CANDIDATES].l # <<>>
  /\ data.d[CANDIDATES].l[1].t = "dict"
  /\ CONTENT \in DOMAIN data.d[CANDIDATES].l[1].d
  /\ data.d[CANDIDATES].l[1].d[CONTENT].t = "dict"
  /\ PARTS \in DOMAIN data.d[CANDIDATES].l[1].d[CONTENT].d
  /\ data.d[CANDIDATES].l[1].d[CONTENT].d[PARTS].t = "list"

FirstParts(data) == data.d[CANDIDATES].l[1].d[CONTENT].d[PARTS].l

\* The success shape: a non-empty candidates list whose first candidate has a
\* content.parts list with a part bearing non-empty text.
HasSuccessShape(data) ==
  /\ HasPartsList(data)
  /\ \E i \in 1..Len(FirstParts(data)) : IsTextPart(FirstParts(data)[i])

\* The text of the first part bearing non-empty text.
FirstText(data) ==
  LET parts == FirstParts(data)
      i == CHOOSE i \in 1..Len(parts) :
             IsTextPart(parts[i]) /\ \A j \in 1..(i - 1) : ~IsTextPart(parts[j])
  IN  parts[i].d[TEXT].s

\* C3, as claimed: on every parsed body without the success shape gemini_generate
\* returns the fixed warning "no usable text" and does not raise.
C3_UnusableBodyGivesWarning ==
  response.kind = "json" /\ ~HasSuccessShape(response.data) =>
    outcome = Returned(NoUsableText)

\* C4: when the POST raises or its body is no JSON, gemini_generate returns a str
\* that starts with the warning glyph and contains the error message, its caller gets
\* that str, and the response data is not inspected.
C4_RequestFailureGivesWarning ==
  response.kind \in {"error", "notjson"} =>
    /\ outcome.kind = "return"
    /\ IsPrefix(WarnGlyph, outcome.text)
    /\ IsSubstr(response.msg, outcome.text)
    /\ outcome # InspectData(response.data)
    /\ report = outcome

\* The body of a 500 answer is no JSON, and the page shows the warning as the report.
C4_Witness ==
  /\ response.kind = "notjson"
  /\ response.status = 500
  /\ response.msg # <<>>
  /\ shown.kind = "report"
  /\ shown.text = outcome.text
  /\ pc = "idle"

\* C5, as claimed: on every parsed body with the success shape gemini_generate
\* returns the text of the first part bearing non-empty text, stripped, whatever the
\* other parts, the other candidates and the HTTP status are.
C5_SuccessShapeGivesFirstText ==
  response.kind = "json" /\ HasSuccessShape(response.data) =>
    outcome = Returned(Strip(FirstText(response.data)))

\* ------------------------------------------------------- pipeline and handler
\* s without its leading and trailing whitespace.
Trimmed(s) ==
  LET solid == {i \in 1..Len(s) : s[i] \notin Whitespace} IN
  IF solid = {} THEN <<>>
  ELSE SubSeq(s, CHOOSE i \in solid : \A j \in solid : i <= j,
                 CHOOSE i \in solid : \A j \in solid : i >= j)

\* C6: the pipeline's context is the first 3 snippets of the ranking for the intent,
\* joined by single spaces; its prompt contains the intent and the context; it asks
\* for max_tokens = 350; and what gemini_generate returns it returns unchanged.
C6_PipelineBuildsPromptAndReturnsResult ==
  events # <<>> =>
    LET ranking == Ranking(constructed, intent)
        top == SubSeq(ranking, 1, Min(3, Len(ranking)))
    IN  /\ context = Join(top)
        /\ (top = <<>> => context = <<>>)
        /\ IsSubstr(intent, request.prompt)
        /\ IsSubstr(context, request.prompt)
        /\ request.max_tokens = 350
        /\ (outcome.kind = "return" => report = outcome)

\* All four default snippets score for "to e": three of them, in ranking order, are
\* the context, and the generated text comes back.
C6_Witness ==
  /\ pc = "idle"
  /\ intent = IntentToE
  /\ Len(result) = 3
  /\ context = Doc2 \o <<" ">> \o Doc3 \o <<" ">> \o Doc1
  /\ response.kind = "json"
  /\ report = Returned(Hi)

\* C7: after a button press, without a key the error is shown and the core has not
\* run, whatever the intent; with a key and a blank intent the warning is shown and
\* the core has not run; otherwise the core runs once, on the trimmed intent.
C7_GatesBeforeCore ==
  shown.kind # "none" =>
    /\ (api_key = <<>> =>
          shown.kind = "error" /\ events = <<>> /\ ~rag.live /\ request = NoRequest)
    /\ (api_key # <<>> /\ IsBlankStr(intent_input) =>
          shown.kind = "warning" /\ events = <<>> /\ ~rag.live /\ request = NoRequest)
    /\ (api_key # <<>> /\ ~IsBlankStr(intent_input) =>
          /\ shown.kind \in {"spinner", "report", "exception"}
          /\ events \in {<<"retrieve">>, <<"retrieve", "post">>}
          /\ intent = Trimmed(intent_input)
          /\ query = intent
          /\ request.key = api_key)

\* No key and a blank intent: the key check decides, and the core has not run.
C7_Witness ==
  /\ shown.kind = "error"
  /\ api_key = <<>>
  /\ intent_input = IntentBlank
  /\ events = <<>>

\* C10, as claimed: the core does one retrieve, then one POST, and then ends with a
\* result; after a failed POST or an unusable response there is no second POST.
C10_OneRetrieveOnePostThenResult ==
  /\ events \in {<<>>, <<"retrieve">>, <<"retrieve", "post">>}
  /\ (pc = "posting" <=> events = <<"retrieve">>)
  /\ (pc = "idle" /\ events # <<>> =>
        events = <<"retrieve", "post">> /\ report.kind = "return")

====
